---- MODULE Spec2Model ----
(***************************************************************************)
(* Model of the dual-mode character controller of                          *)
(* larvuz2/physics-character-controller:                                   *)
(*   src/src/physics.js    PhysicsWorld (wrappers around the Rapier body)  *)
(*   src/src/character.js  CharacterController (mode, jump state machine,  *)
(*                         fallback integrator)                            *)
(*   src/src/main.js       Application (init, gameLoop)                    *)
(*   src/unnamed/part_001  SceneManager (camera modes, follow camera)      *)
(*   src/unnamed/part_002  InputHandler (movement direction)               *)
(*                                                                         *)
(* Units.  All quantities are exact integers:                              *)
(*   time      1 tick  = 0.05 s          (0.1 s = 2 ticks)                 *)
(*   velocity  1 unit  = 0.0001 m/s      (9.81 m/s^2 * 1 tick = 4905)      *)
(*   position  1 unit  = 0.000005 m      (velocity unit * tick; 1 m =      *)
(*                                        200000)                          *)
(*   angle     pi      = Pi units        (see Pi below)                    *)
(*   scene     1 unit  = 0.1 m           (camera and its target)           *)
(* so that  velocity -= 9.81*dt  and  position += velocity*dt  are the     *)
(* integer updates  v - Gravity*dt  and  p + v*dt.                         *)
(*                                                                         *)
(* Specifications.  The controller's state splits into parts that do not   *)
(* read each other, and each part has its specification:                   *)
(*   Spec             the vertical axis, the jump state machine and the    *)
(*                    mode (variables phase .. last).  The yaw angle, the  *)
(*                    facing vector and the x/z components are written by  *)
(*                    update but never read by the code that decides       *)
(*                    usingFallback, isGrounded, isJumping,                *)
(*                    jumpCooldownTimer, velocity.y or position.y.         *)
(*   OrientationSpec  the yaw angle and the facing vector, which only      *)
(*                    updateRotation writes (variable turn), with the      *)
(*                    horizontal velocity computed from them.              *)
(*   LoopSpec         Application.gameLoop driving the controller          *)
(*                    (variable loop and the variables of Spec).           *)
(*   DegradeSpec      a controller on a body of the engine, with what the  *)
(*                    engine last reported and the time since the last     *)
(*                    jump as history (variable track).                    *)
(*   CameraSpec       the camera of SceneManager (variable camera).        *)
(*   SlideFairSpec    the horizontal velocity of the fallback step while   *)
(*                    the move input is zero (variable slide).             *)
(*   InputSpec        InputHandler: the keys and getMovementDirection      *)
(*                    (variable input).                                    *)
(*   SnapshotSpec     the objects that state.position, .velocity and       *)
(*                    .rotation refer to and the values the getters        *)
(*                    return (variable objects).                           *)
(* A specification holds the variables of the others at their initial      *)
(* values.                                                                 *)
(***************************************************************************)
EXTENDS Integers, FiniteSets, Sequences, TLC

VARIABLES
    phase,          \* position of Application.init: "new", "initialized", "running"
    initialized,    \* PhysicsWorld.initialized
    world,          \* PhysicsWorld.world: "none", "rapier" or "stub"
    character,      \* CharacterController.character: NoCharacter or the body it holds
    usingFallback,  \* CharacterController.usingFallback
    state,          \* CharacterController.state (vertical projection)
    transitions,    \* number of changes of usingFallback since construction (history)
    everFailed,     \* an engine capability threw in some call since start (history)
    last,           \* what the last controller call did (history)
    turn,           \* state.rotation.y and state.direction of the controller
    loop,           \* the fields of Application that gameLoop reads and writes
    track,          \* what the engine last reported, time since the last jump (history)
    camera,         \* SceneManager: cameraMode, controls, thirdPersonCamera, camera
    slide,          \* state.velocity.x and .z of a controller in Fallback mode
    input,          \* InputHandler: the keys held, the last movement direction
    objects         \* the objects of state.position, .velocity, .rotation and
                    \* of the values the getters have returned

vars == <<phase, initialized, world, character, usingFallback, state, transitions,
          everFailed, last, turn, loop, track, camera, slide,
                   input, objects>>

----------------------------------------------------------------------------
(* Bounds of the engine's answers *)

\* the engine reports heights 0 .. MaxEngineHeight metres
MaxEngineHeight == 2
\* the engine reports vertical velocities 0 down to -MaxEngineSpeed m/s
MaxEngineSpeed == 1

(* Program constants, in model units *)

\* options.jumpCooldown = 0.3 s
jumpCooldown == 6
\* options.jumpForce * 0.1 = 1.0 m/s, the fallback jump velocity
FallbackJumpVelocity == 10000
\* 9.81 m/s^2 times one tick
Gravity == 4905
\* the ground clamp height 1 m (also the initial state.position.y)
RestHeight == 200000
\* largest deltaTime the game loop passes on: 0.1 s
MaxDeltaTime == 2

DeltaTimes == 0..MaxDeltaTime
\* RestHeight is 1 m and FallbackJumpVelocity is 1 m/s: they serve as the units
EngineHeights == {h * RestHeight : h \in 0..MaxEngineHeight}
EngineSpeeds == {0 - v * FallbackJumpVelocity : v \in 0..MaxEngineSpeed}

\* the methods of a rigid body the controller and PhysicsWorld use
BodyMethods == {"translation", "linvel", "setLinvel", "applyImpulse"}

NoCharacter == [kind |-> "null", caps |-> {}]

\* PhysicsWorld.createFallbackBody: every method present, none throws
createFallbackBody == [kind |-> "stub", caps |-> BodyMethods]

----------------------------------------------------------------------------
(* What the engine answers during one call of the controller.  A method    *)
(* either throws (ok = FALSE) or returns (ok = TRUE, val).                  *)

Throw == [ok |-> FALSE, val |-> 0]
Return(v) == [ok |-> TRUE, val |-> v]

ProbeAnswers == {"hit", "miss", "throw"}
LinvelAnswers == {Throw} \cup {Return(v) : v \in EngineSpeeds}
TranslationAnswers == {Throw} \cup {Return(h) : h \in EngineHeights}

\* the answers when the engine is not asked
NoAnswers ==
    [probe |-> "miss", linvel |-> Return(0), setLinvel |-> Return(0),
     applyImpulse |-> Return(0), translation |-> Return(0)]

\* the answers to one update.  Once linvel() has thrown, update asks the
\* engine nothing more, so the answers after it are left at NoAnswers
EngineAnswers ==
    [probe        : ProbeAnswers,
     linvel       : LinvelAnswers \ {Throw},
     setLinvel    : {Throw, Return(0)},
     applyImpulse : {Throw, Return(0)},
     translation  : TranslationAnswers]
        \cup {[NoAnswers EXCEPT !.probe = p, !.linvel = Throw] : p \in ProbeAnswers}

\* a call of method m on the body: a missing method is a TypeError, the stub
\* body's methods return their constants, a Rapier body answers as the engine does
BodyCall(body, m, answer) ==
    IF m \notin body.caps THEN Throw
    ELSE IF body.kind = "stub" THEN Return(0)
    ELSE answer

\* the answers the engine can give to a controller in mode uf in world w: in
\* Fallback mode the engine is not asked; the stub world's castRay returns null,
\* so its probe never hits (constructing the ray may still throw)
AnswersIn(uf, w) ==
    IF uf THEN {NoAnswers}
    ELSE IF w = "stub" THEN {e \in EngineAnswers : e.probe # "hit"}
    ELSE EngineAnswers

----------------------------------------------------------------------------
(* PhysicsWorld, src/src/physics.js.  Each wrapper returns                  *)
(*   raised : whether the wrapper throws to its caller                      *)
(*   val    : its return value                                              *)
(*   calls  : the engine capabilities it invoked                            *)
(*   failed : the capabilities that threw inside it                         *)

\* PhysicsWorld.init: Rapier loads, or the catch installs the stub world
init(rapierLoads) == IF rapierLoads THEN "rapier" ELSE "stub"

\* PhysicsWorld.createCharacter: null when not initialized; the body the engine
\* created; the stub body when anything in the try block throws
createCharacter(isInit, w, engineBody) ==
    IF ~isInit THEN NoCharacter
    ELSE IF w = "stub" \/ engineBody.kind # "rapier" THEN createFallbackBody
    ELSE engineBody

\* PhysicsWorld.isGrounded: the catch answers true
isGrounded(isInit, body, e) ==
    IF ~isInit \/ body.kind = "null"
    THEN [raised |-> FALSE, val |-> FALSE, calls |-> {}, failed |-> {}]
    ELSE LET outcome == IF "translation" \notin body.caps THEN "throw" ELSE e.probe
         IN [raised |-> FALSE,
             val    |-> IF outcome = "throw" THEN TRUE ELSE outcome = "hit",
             calls  |-> {"groundProbe"},
             failed |-> IF outcome = "throw" THEN {"groundProbe"} ELSE {}]

\* PhysicsWorld.getBodyPosition: the catch answers the origin
getBodyPosition(body, e) ==
    IF body.kind = "null"
    THEN [raised |-> FALSE, val |-> 0, calls |-> {}, failed |-> {}]
    ELSE LET r == BodyCall(body, "translation", e.translation)
         IN [raised |-> FALSE,
             val    |-> IF r.ok THEN r.val ELSE 0,
             calls  |-> {"translation"},
             failed |-> IF r.ok THEN {} ELSE {"translation"}]

\* setBodyVelocity without its try/catch: the engine's exception reaches the caller
setBodyVelocity_rethrows(body, e) ==
    IF body.kind = "null"
    THEN [raised |-> FALSE, val |-> 0, calls |-> {}, failed |-> {}]
    ELSE LET r == BodyCall(body, "setLinvel", e.setLinvel)
         IN [raised |-> ~r.ok, val |-> 0,
             calls  |-> {"setLinvel"},
             failed |-> IF r.ok THEN {} ELSE {"setLinvel"}]

\* PhysicsWorld.setBodyVelocity: the catch only logs
setBodyVelocity(body, e) ==
    IF body.kind = "null"
    THEN [raised |-> FALSE, val |-> 0, calls |-> {}, failed |-> {}]
    ELSE LET r == BodyCall(body, "setLinvel", e.setLinvel)
         IN [raised |-> FALSE, val |-> 0,
             calls  |-> {"setLinvel"},
             failed |-> IF r.ok THEN {} ELSE {"setLinvel"}]

\* PhysicsWorld.applyImpulse: the catch only logs
applyImpulse(body, e) ==
    IF body.kind = "null"
    THEN [raised |-> FALSE, val |-> 0, calls |-> {}, failed |-> {}]
    ELSE LET r == BodyCall(body, "applyImpulse", e.applyImpulse)
         IN [raised |-> FALSE, val |-> 0,
             calls  |-> {"applyImpulse"},
             failed |-> IF r.ok THEN {} ELSE {"applyImpulse"}]

----------------------------------------------------------------------------
(* CharacterController, src/src/character.js *)

\* this.state as the constructor builds it
InitialState ==
    [isGrounded |-> FALSE, isJumping |-> FALSE, jumpCooldownTimer |-> 0,
     velocityY |-> 0, positionY |-> RestHeight]

\* the cooldown step with the sign of deltaTime reversed
DecrementCooldown_adds(s, dt) ==
    IF s.jumpCooldownTimer > 0
    THEN [s EXCEPT !.jumpCooldownTimer = s.jumpCooldownTimer + dt]
    ELSE s

\* "if (jumpCooldownTimer > 0) jumpCooldownTimer -= deltaTime"
DecrementCooldown(s, dt) ==
    IF s.jumpCooldownTimer > 0
    THEN [s EXCEPT !.jumpCooldownTimer = s.jumpCooldownTimer - dt]
    ELSE s

\* the jump condition without the isGrounded test
JumpCondition_ignoresGround(s, jump) == jump /\ s.jumpCooldownTimer <= 0

\* the jump condition shared by updateFallbackMovement and handleJump
JumpCondition(s, jump) == jump /\ s.isGrounded /\ s.jumpCooldownTimer <= 0

\* the record of one call of the controller
NoTrace ==
    [calls |-> {}, failed |-> {}, fallbackSteps |-> 0, fallbackArgs |-> <<>>,
     jumped |-> FALSE, chkJump |-> FALSE, chkGrounded |-> FALSE, chkCooldown |-> 0,
     targetY |-> 0]

\* history: one more run of updateFallbackMovement, with these arguments
FallbackEntered(tr, jump, dt) ==
    [tr EXCEPT !.fallbackSteps = tr.fallbackSteps + 1,
               !.fallbackArgs = <<jump, dt>>]

\* the gravity step that pulls a grounded character down as well
FallbackGravity_always(s, dt) ==
    [s EXCEPT !.velocityY = s.velocityY - Gravity * dt]

\* updateFallbackMovement, "Simple gravity simulation"
FallbackGravity(s, dt) ==
    IF ~s.isGrounded
    THEN [s EXCEPT !.velocityY = s.velocityY - Gravity * dt]
    ELSE [s EXCEPT !.velocityY = 0, !.isJumping = FALSE]

\* updateFallbackMovement, "Handle jumping with fallback system"
FallbackJump(s, jump, tr) ==
    IF JumpCondition(s, jump)
    THEN [state |-> [s EXCEPT !.velocityY = FallbackJumpVelocity,
                              !.isJumping = TRUE,
                              !.isGrounded = FALSE,
                              !.jumpCooldownTimer = jumpCooldown],
          trace |-> [tr EXCEPT !.jumped = TRUE,
                               !.chkJump = jump,
                               !.chkGrounded = s.isGrounded,
                               !.chkCooldown = s.jumpCooldownTimer]]
    ELSE [state |-> s, trace |-> tr]

\* updateFallbackMovement, "Update position based on velocity"
FallbackIntegrate(s, dt) ==
    [s EXCEPT !.positionY = s.positionY + s.velocityY * dt]

\* the ground collision that also grounds a character exactly at the rest height
FallbackGroundCollision_atRest(s) ==
    IF s.positionY <= RestHeight
    THEN [s EXCEPT !.positionY = RestHeight, !.isGrounded = TRUE]
    ELSE [s EXCEPT !.isGrounded = FALSE]

\* updateFallbackMovement, "Simple ground collision"
FallbackGroundCollision(s) ==
    IF s.positionY < RestHeight
    THEN [s EXCEPT !.positionY = RestHeight, !.isGrounded = TRUE]
    ELSE [s EXCEPT !.isGrounded = FALSE]

\* the end of updateFallbackMovement: integration and ground collision
FallbackMove(j, dt) ==
    [raised |-> FALSE, usingFallback |-> TRUE,
     state |-> FallbackGroundCollision(FallbackIntegrate(j.state, dt)),
     trace |-> j.trace]

\* CharacterController.updateFallbackMovement (vertical axis): gravity, cooldown,
\* jump, integration, ground collision
updateFallbackMovement(s, jump, dt, tr) ==
    FallbackMove(FallbackJump(DecrementCooldown(FallbackGravity(s, dt), dt), jump,
                              FallbackEntered(tr, jump, dt)),
                 dt)

\* r with the calls of the wrapper result w added to its trace
Traced(r, w) ==
    [r EXCEPT !.trace.calls = r.trace.calls \cup w.calls,
              !.trace.failed = r.trace.failed \cup w.failed]

\* the end of handleMovement: w is the outcome of physics.setBodyVelocity; the
\* catch switches the mode when it throws
MovementApplied(uf, s, tr, w) ==
    Traced([raised |-> FALSE,
            usingFallback |-> IF w.raised THEN TRUE ELSE uf,
            state |-> s, trace |-> tr], w)

\* handleMovement with a target velocity that has no vertical component
TargetVelocityY_zero(s) == 0

\* handleMovement, "let targetVelocity = { x: 0, y: this.state.velocity.y, z: 0 }"
TargetVelocityY(s) == s.velocityY

\* CharacterController.handleMovement: sets the target velocity on the body
\* (the trace keeps its vertical component)
handleMovement(uf, body, s, e, tr) ==
    MovementApplied(uf, s, [tr EXCEPT !.targetY = TargetVelocityY(s)],
                    setBodyVelocity(body, e))

\* handleJump without "Reset jump state when landing"
LandingReset_skipped(s) == s

\* handleJump, "Reset jump state when landing"
LandingReset(s) ==
    IF s.isGrounded /\ s.isJumping THEN [s EXCEPT !.isJumping = FALSE] ELSE s

\* the jump branch of handleJump: w is the outcome of physics.applyImpulse; when
\* it throws, the catch switches the mode and the state is left as it was
JumpApplied(uf, s, jump, tr, w) ==
    IF w.raised
    THEN Traced([raised |-> FALSE, usingFallback |-> TRUE, state |-> s, trace |-> tr], w)
    ELSE Traced([raised |-> FALSE, usingFallback |-> uf,
                 state |-> LandingReset([s EXCEPT !.isJumping = TRUE,
                                                  !.isGrounded = FALSE,
                                                  !.jumpCooldownTimer = jumpCooldown]),
                 trace |-> [tr EXCEPT !.jumped = TRUE,
                                      !.chkJump = jump,
                                      !.chkGrounded = s.isGrounded,
                                      !.chkCooldown = s.jumpCooldownTimer]], w)

\* CharacterController.handleJump: the impulse and the jump state, then the
\* landing reset
handleJump(uf, body, s, jump, e, tr) ==
    IF JumpCondition(s, jump)
    THEN JumpApplied(uf, s, jump, tr, applyImpulse(body, e))
    ELSE [raised |-> FALSE, usingFallback |-> uf, state |-> LandingReset(s), trace |-> tr]

\* update, "Update position from physics": p is the outcome of
\* physics.getBodyPosition
PositionRead(r, p) ==
    IF p.raised
    THEN Traced([r EXCEPT !.raised = TRUE], p)
    ELSE Traced([r EXCEPT !.state.positionY = p.val], p)

\* handleJump applied to the outcome hm of handleMovement
JumpAfterMovement(hm, body, jump, e) ==
    handleJump(hm.usingFallback, body, hm.state, jump, e, hm.trace)

\* update from "Get current velocity" on: lv is the outcome of body.linvel()
VelocityRead(uf, body, s, jump, e, tr, lv) ==
    IF ~lv.ok
    THEN [raised |-> TRUE, usingFallback |-> uf, state |-> s,
          trace |-> [tr EXCEPT !.calls = tr.calls \cup {"linvel"},
                               !.failed = tr.failed \cup {"linvel"}]]
    ELSE PositionRead(
             JumpAfterMovement(
                 handleMovement(uf, body, [s EXCEPT !.velocityY = lv.val], e,
                                [tr EXCEPT !.calls = tr.calls \cup {"linvel"}]),
                 body, jump, e),
             getBodyPosition(body, e))

\* update from "Check if character is grounded" on: g is the outcome of
\* physics.isGrounded
GroundProbed(uf, body, s, jump, dt, e, g) ==
    IF g.raised
    THEN [raised |-> TRUE, usingFallback |-> uf, state |-> s,
          trace |-> [NoTrace EXCEPT !.calls = g.calls, !.failed = g.failed]]
    ELSE VelocityRead(uf, body,
                      DecrementCooldown([s EXCEPT !.isGrounded = g.val], dt),
                      jump, e,
                      [NoTrace EXCEPT !.calls = g.calls, !.failed = g.failed],
                      BodyCall(body, "linvel", e.linvel))

\* the try block of CharacterController.update; raised = an exception reaches
\* the catch of update
UpdateTry(uf, isInit, body, s, jump, dt, e) ==
    GroundProbed(uf, body, s, jump, dt, e, isGrounded(isInit, body, e))

\* update without its catch: the exception of the try block leaves update
UpdateCatch_rethrows(t, jump, dt) == t

\* the catch of CharacterController.update: t is the outcome of the try block
UpdateCatch(t, jump, dt) ==
    IF t.raised
    THEN updateFallbackMovement(t.state, jump, dt, t.trace)
    ELSE t

\* update that tries the physics path again whenever the body looks valid,
\* whatever usingFallback says
update_retriesPhysics(uf, isInit, body, s, jump, dt, e) ==
    IF body.kind = "null" \/ "translation" \notin body.caps
    THEN updateFallbackMovement(s, jump, dt, NoTrace)
    ELSE UpdateCatch(UpdateTry(FALSE, isInit, body, s, jump, dt, e), jump, dt)

\* CharacterController.update
update(uf, isInit, body, s, jump, dt, e) ==
    IF uf
    THEN updateFallbackMovement(s, jump, dt, NoTrace)
    ELSE IF body.kind = "null"
    THEN updateFallbackMovement(s, jump, dt, NoTrace)
    ELSE UpdateCatch(UpdateTry(uf, isInit, body, s, jump, dt, e), jump, dt)

\* getPosition's try block and catch: p is the outcome of
\* physics.getBodyPosition
PositionStored(uf, s, p) ==
    IF p.raised
    THEN [raised |-> FALSE, usingFallback |-> TRUE, state |-> s,
          trace |-> [NoTrace EXCEPT !.calls = p.calls, !.failed = p.failed]]
    ELSE [raised |-> FALSE, usingFallback |-> uf,
          state |-> [s EXCEPT !.positionY = p.val],
          trace |-> [NoTrace EXCEPT !.calls = p.calls, !.failed = p.failed]]

\* CharacterController.getPosition: in Physics mode it reads the body and
\* stores the answer in state.position
getPosition(uf, body, s, e) ==
    IF uf
    THEN [raised |-> FALSE, usingFallback |-> TRUE, state |-> s, trace |-> NoTrace]
    ELSE IF body.kind = "null"
    THEN [raised |-> FALSE, usingFallback |-> TRUE, state |-> s, trace |-> NoTrace]
    ELSE PositionStored(uf, s, getBodyPosition(body, e))

----------------------------------------------------------------------------
(* Orientation: CharacterController.updateRotation and the horizontal      *)
(* velocity, src/src/character.js; InputHandler.getMovementDirection,      *)
(* src/unnamed/part_002.                                                   *)
(*                                                                         *)
(* Angles are integers, pi = Pi units.  A unit vector is kept as its       *)
(* heading h in 0 .. 2*Pi - 1, which stands for (x, z) = (sin h, cos h):   *)
(* two unit vectors are equal exactly when their headings are.             *)
(* updateRotation multiplies an angle by rotationSpeed * deltaTime, a      *)
(* multiple of 1/4; Pi holds a factor 4 for each of the MaxTurns turning   *)
(* steps a behaviour takes, so every angle of the model is exact.          *)

\* a behaviour takes at most MaxTurns turning steps with deltaTime > 0
MaxTurns == 3
\* updateRotation is handed deltaTime = 0 .. LongDeltaTime ticks (0.25 s): the
\* method takes any deltaTime, also one beyond what the game loop passes on
LongDeltaTime == 5

\* options.rotationSpeed = 5.0 per second
rotationSpeed == 5
\* options.moveSpeed = 5.0 m/s
moveSpeed == 50000

RECURSIVE Pow4(_)
Pow4(n) == IF n = 0 THEN 1 ELSE 4 * Pow4(n - 1)

\* the angle pi: pi/4, the finest key direction, is Pow4(MaxTurns) units
Pi == 4 * Pow4(MaxTurns)

TurnDeltaTimes == 0..LongDeltaTime

Abs(n) == IF n < 0 THEN 0 - n ELSE n

\* the movement keys of InputHandler
Keys == {"forward", "backward", "left", "right"}

\* "if (this.keys.forward) direction.z -= 1; if (this.keys.backward)
\* direction.z += 1; if (this.keys.left) direction.x -= 1; if (this.keys.right)
\* direction.x += 1"
KeyDirection(keys) ==
    [x |-> (IF "right" \in keys THEN 1 ELSE 0) - (IF "left" \in keys THEN 1 ELSE 0),
     z |-> (IF "backward" \in keys THEN 1 ELSE 0) - (IF "forward" \in keys THEN 1 ELSE 0)]

\* the vector returned as the keys give it, without the division
Normalized_skipped(d) == [x |-> d.x, z |-> d.z, nan |-> FALSE, div |-> 1]

\* "length = Math.sqrt(x*x + z*z); if (length > 0) { direction.x /= length;
\* direction.z /= length }".  The vector returned is (x, z) / sqrt(div): div is
\* the square of the length divided by, 1 when nothing is divided
Normalized(d) ==
    [x |-> d.x, z |-> d.z, nan |-> FALSE,
     div |-> IF d.x * d.x + d.z * d.z > 0 THEN d.x * d.x + d.z * d.z ELSE 1]

\* InputHandler.getMovementDirection for the set of pressed keys.  x and z are
\* the components before the scaling (their signs and ratio, which is all that
\* atan2 reads)
getMovementDirection(keys) == Normalized(KeyDirection(keys))

\* a movement vector with a NaN component, from an input object other than
\* InputHandler
NaNDirection == [x |-> 0, z |-> 0, nan |-> TRUE, div |-> 1]

MoveInputs == {getMovementDirection(k) : k \in SUBSET Keys} \cup {NaNDirection}

\* "inputDirection.x !== 0 || inputDirection.z !== 0": NaN !== 0 is true
IsMoving(move) == move.nan \/ move.x # 0 \/ move.z # 0

\* Math.atan2(x, z) for the directions of the keys: a multiple of pi/4 in
\* (-pi, pi]
Atan2(x, z) ==
    IF x = 0 THEN (IF z < 0 THEN Pi ELSE 0)
    ELSE x * (2 - z) * (Pi \div 4)

\* "while (currentAngle > Math.PI) ...; while (currentAngle < -Math.PI) ..."
RECURSIVE NormalizeAngle(_)
NormalizeAngle(a) ==
    IF a > Pi THEN NormalizeAngle(a - 2 * Pi)
    ELSE IF a < 0 - Pi THEN NormalizeAngle(a + 2 * Pi)
    ELSE a

\* the difference of the angles without the two wrapping tests
AngleDiff_unwrapped(target, current) == target - current

\* "Calculate shortest rotation path"
AngleDiff(target, current) ==
    IF target - current > Pi THEN target - current - 2 * Pi
    ELSE IF target - current < 0 - Pi THEN target - current + 2 * Pi
    ELSE target - current

\* the rotation step three times as large
RotationAmount_tripled(diff, dt) == (diff * rotationSpeed * dt * 3) \div 20

\* "rotationAmount = angleDiff * rotationSpeed * deltaTime", deltaTime = dt/20 s
RotationAmount(diff, dt) == (diff * rotationSpeed * dt) \div 20

\* the unit vector (Math.sin(a), Math.cos(a)), as its heading
DirectionOf(a) == a % (2 * Pi)

\* state.rotation.y = 0 and state.direction = {x: 0, z: -1} = (sin pi, cos pi)
\* as the constructor sets them; nan: the fields hold NaN.  History: turns
\* counts the turning steps taken, accepted tells that each of them had a
\* deltaTime the game loop passes on (at most MaxDeltaTime), idle tells that
\* the latest call of updateRotation had the input (0, 0)
InitialTurn ==
    [rotationY |-> 0, direction |-> DirectionOf(Pi), nan |-> FALSE,
     turns |-> 0, accepted |-> TRUE, idle |-> FALSE]

\* "this.state.rotation.y += rotationAmount" and "Update direction vector
\* based on rotation"
Turned(t, amount, dt) ==
    [t EXCEPT !.rotationY = t.rotationY + amount,
              !.direction = DirectionOf(t.rotationY + amount),
              !.turns = IF dt > 0 THEN t.turns + 1 ELSE t.turns,
              !.accepted = (t.accepted /\ dt <= MaxDeltaTime)]

\* updateRotation without its test of the input: it turns towards
\* Math.atan2(0, 0) = 0 when no key is held
updateRotation_always(t, move, dt) ==
    IF move.nan \/ t.nan THEN [t EXCEPT !.nan = TRUE]
    ELSE Turned(t, RotationAmount(AngleDiff(Atan2(move.x, move.z),
                                            NormalizeAngle(t.rotationY)), dt), dt)

\* CharacterController.updateRotation.  A NaN component makes targetAngle,
\* angleDiff, rotation.y and the direction NaN, and NaN stays NaN in every later
\* step that rotates; without movement nothing is written
updateRotation(t, move, dt) ==
    IF ~IsMoving(move) THEN t
    ELSE IF move.nan \/ t.nan THEN [t EXCEPT !.nan = TRUE]
    ELSE Turned(t, RotationAmount(AngleDiff(Atan2(move.x, move.z),
                                            NormalizeAngle(t.rotationY)), dt), dt)

\* the horizontal velocity that updateFallbackMovement and handleMovement
\* compute for a moving character, as speed and heading.  With the direction
\* d = (sin h, cos h) and the input i = (sin a, cos a), a = atan2(i.x, i.z):
\*   velocity.x = d.x*i.z*s - d.z*i.x*s = s * sin(h - a)
\*   velocity.z = d.z*i.z*s + d.x*i.x*s = s * cos(h - a)
\* where s = moveSpeed * (isGrounded ? 1.0 : airControl), airControl = 0.3
HorizontalVelocity(direction, move, grounded) ==
    [speed |-> IF grounded THEN moveSpeed ELSE (moveSpeed * 3) \div 10,
     heading |-> DirectionOf(direction - Atan2(move.x, move.z))]

\* the horizontal velocity that updateFallbackMovement writes in a frame that
\* starts in the vertical state s and the orientation t: updateRotation, the
\* gravity step, the cooldown and the jump come first, and the speed is chosen
\* by isGrounded as the jump has left it
FallbackVelocity(s, t, move, jump, dt) ==
    HorizontalVelocity(
        updateRotation(t, move, dt).direction, move,
        FallbackJump(DecrementCooldown(FallbackGravity(s, dt), dt), jump,
                     NoTrace).state.isGrounded)

\* the horizontal target velocity that handleMovement sets on the body in a
\* frame that starts in the orientation t and in which the ground probe has
\* answered s.isGrounded: update calls updateRotation and handleMovement before
\* handleJump, the speed is chosen by the probe's answer
PhysicsTargetVelocity(s, t, move, jump, dt) ==
    HorizontalVelocity(updateRotation(t, move, dt).direction, move,
                       DecrementCooldown(s, dt).isGrounded)

\* "position.x += velocity.x * deltaTime; position.z += velocity.z * deltaTime":
\* the horizontal displacement of one step, as length and heading
Displacement(v, dt) == [length |-> v.speed * dt, heading |-> v.heading]

\* the turning steps stay within the resolution of the angles
TurnAllowed(t, move, dt) ==
    dt = 0 \/ t.turns < MaxTurns \/ t.nan \/ move.nan \/ ~IsMoving(move)

----------------------------------------------------------------------------
(* Application, src/src/main.js *)

\* consecutive frames are 0 .. MaxElapsed ticks apart
MaxElapsed == 4

ElapsedTimes == 0..MaxElapsed

\* the fields of Application before init; the others are history.  Of the last
\* frame: limited (deltaTime was cut down), stepped (physics.step was called),
\* updated (character.update was called), frame (how gameLoop ended: "none"
\* before the first frame, "completed" or "caught"); scheduled counts the
\* callbacks that requestAnimationFrame holds and has not run yet
InitialLoop ==
    [isRunning |-> FALSE, usingFallback |-> FALSE, hasError |-> FALSE,
     deltaTime |-> 0, limited |-> FALSE, stepped |-> FALSE, updated |-> FALSE,
     frame |-> "none", scheduled |-> 0, startedInFallback |-> FALSE]

\* gameLoop without the limit on deltaTime
LimitDeltaTime_unlimited(elapsed) == elapsed

\* gameLoop, "deltaTime = (currentTime - lastTime) / 1000" and "Limit delta
\* time to prevent large jumps": elapsed = currentTime - lastTime in ticks
LimitDeltaTime(elapsed) ==
    IF elapsed > MaxDeltaTime THEN MaxDeltaTime ELSE elapsed

\* what can throw inside the try block of gameLoop.  physics.step,
\* character.update, character.getPosition, scene.updateMeshPosition,
\* scene.updateCameraTarget and scene.render catch their own exceptions, and
\* scene.showError and updateStatus only assign to elements that exist; what is
\* left is updateDebugInfo (toFixed on a coordinate that is not a number),
\* after character.update
SceneFailures == {"none", "updateDebugInfo"}

\* gameLoop whose catch does not request the next frame
FramesRequested_notAfterError(fails) == IF fails = "none" THEN 1 ELSE 0

\* the calls of requestAnimationFrame in one gameLoop: the last statement of the
\* try block, or the last statement of the catch
FramesRequested(fails) == IF fails = "none" THEN 1 ELSE 1

\* the engine's answers within one frame: the body rests at the height 1 m,
\* the ground probe hits or misses, and linvel() returns or throws (the one
\* failure that reaches the loop as a change of mode); in Fallback mode the
\* engine is not asked
LoopAnswers(uf, w) ==
    IF uf THEN AnswersIn(uf, w)
    ELSE {e \in AnswersIn(uf, w) :
             /\ e.probe # "throw" /\ e.setLinvel.ok /\ e.applyImpulse.ok
             /\ e.linvel \in {Throw, Return(0)}
             /\ e.linvel.ok => e.translation = Return(RestHeight)}

\* gameLoop's calls on the controller after character.update has returned u:
\* character.getPosition reads the body again (no physics step lies between
\* the two reads, the engine answers as before)
FramePosition(body, e, u) == getPosition(u.usingFallback, body, u.state, e)

----------------------------------------------------------------------------
(* History of a controller on a body of the engine: what the engine last   *)
(* reported to it, and the time since its last jump                        *)

Unknown == [known |-> FALSE, val |-> 0]
Known(v) == [known |-> TRUE, val |-> v]

\* nothing reported yet, no jump yet
InitialTrack ==
    [position |-> Unknown, velocity |-> Unknown, sinceJump |-> Unknown,
     target |-> Unknown]

\* the time since the last jump, dt later; jumpCooldown stands for any longer time
Elapsed(since, dt) ==
    IF ~since.known THEN since
    ELSE IF since.val + dt > jumpCooldown THEN Known(jumpCooldown)
    ELSE Known(since.val + dt)

\* the history after a call that returned r and took dt: the height that
\* body.translation() returned and the velocity that body.linvel() returned, when
\* the call read them, the time since the last "Apply jump impulse" or
\* "velocity.y = jumpForce * 0.1", and the vertical velocity that
\* body.setLinvel() was last given
Tracked(t, r, dt) ==
    [position  |-> IF "translation" \in r.trace.calls \ r.trace.failed
                   THEN Known(r.state.positionY) ELSE t.position,
     velocity  |-> IF "linvel" \in r.trace.calls \ r.trace.failed
                   THEN Known(r.state.velocityY) ELSE t.velocity,
     sinceJump |-> IF r.trace.jumped THEN Known(0) ELSE Elapsed(t.sinceJump, dt),
     target    |-> IF "setLinvel" \in r.trace.calls \ r.trace.failed
                   THEN Known(r.trace.targetY) ELSE t.target]

\* the engine's answers to a body whose ground probe, setLinvel and applyImpulse
\* work: linvel() and translation() return or throw
DegradeAnswers(uf, w) ==
    {e \in AnswersIn(uf, w) :
        e.probe # "throw" /\ e.setLinvel.ok /\ e.applyImpulse.ok}

----------------------------------------------------------------------------
(* SceneManager, src/unnamed/part_001: the camera.  Lengths of the scene   *)
(* are integers, 1 unit = 0.1 m; a point is a record [x, y, z].            *)

\* the C key is pressed at most MaxToggles times
MaxToggles == 3

Point(x, y, z) == [x |-> x, y |-> y, z |-> z]

\* the largest r with r * r <= n
RECURSIVE Isqrt(_)
Isqrt(n) ==
    IF n < 2 THEN n
    ELSE LET r == 2 * Isqrt(n \div 4)
         IN IF (r + 1) * (r + 1) <= n THEN r + 1 ELSE r

\* Vector3.distanceTo
distanceTo(a, b) ==
    Isqrt((a.x - b.x) * (a.x - b.x) + (a.y - b.y) * (a.y - b.y)
              + (a.z - b.z) * (a.z - b.z))

\* Math.sin and Math.cos of an angle that is a multiple of pi/2
Sin(a) ==
    IF a % (2 * Pi) = Pi \div 2 THEN 1
    ELSE IF a % (2 * Pi) = 3 * (Pi \div 2) THEN -1 ELSE 0

Cos(a) ==
    IF a % (2 * Pi) = 0 THEN 1
    ELSE IF a % (2 * Pi) = Pi THEN -1 ELSE 0

\* the fields of SceneManager after its constructor: the camera at (5, 5, 10),
\* OrbitControls as its constructor leaves it (enabled, target at the origin),
\* thirdPersonCamera, cameraMode; applied is history: what the last
\* updateCameraTarget did, toggles counts the calls of toggleCameraMode
InitialCamera ==
    [cameraMode |-> "third-person", enabled |-> TRUE,
     distance |-> 50, height |-> 20, rotationAngle |-> 0,
     position |-> Point(50, 50, 100), target |-> Point(0, 0, 0),
     applied |-> "none", toggles |-> 0]

\* toggleCameraMode with the horizontal distance to the target
RecomputedDistance_horizontal(position, target) ==
    distanceTo(Point(position.x, target.y, position.z), target)

\* toggleCameraMode, "thirdPersonCamera.distance =
\* currentPos.distanceTo(this.controls.target)"
RecomputedDistance(position, target) == distanceTo(position, target)

\* SceneManager.toggleCameraMode
toggleCameraMode(c) ==
    IF c.cameraMode = "orbit"
    THEN [c EXCEPT !.cameraMode = "third-person",
                   !.distance = RecomputedDistance(c.position, c.target),
                   !.height = c.position.y - c.target.y,
                   !.enabled = FALSE,
                   !.toggles = c.toggles + 1]
    ELSE [c EXCEPT !.cameraMode = "orbit",
                   !.enabled = TRUE,
                   !.toggles = c.toggles + 1]

\* updateCameraTarget, "Calculate camera position based on distance and angle"
FollowPosition(c, position) ==
    Point(position.x - Sin(c.rotationAngle) * c.distance,
          position.y + c.height,
          position.z - Cos(c.rotationAngle) * c.distance)

\* one tenth of n, rounded away from zero: the step of the smoothing, which
\* reaches the desired position as the floating-point iteration does
Tenth(n) == IF n >= 0 THEN (n + 9) \div 10 ELSE -((9 - n) \div 10)

\* updateCameraTarget, "Apply smoothing to camera movement"
Smoothed(from, to) ==
    Point(from.x + Tenth(to.x - from.x), from.y + Tenth(to.y - from.y),
          from.z + Tenth(to.z - from.z))

\* updateCameraTarget in third-person mode, after the rotation angle is set
Followed(c, position) ==
    [c EXCEPT !.position = Smoothed(c.position, FollowPosition(c, position)),
              !.applied = "follow"]

\* SceneManager.updateCameraTarget(position, direction): direction is the
\* controller's facing vector, of length 1 (> 0.1)
updateCameraTarget(c, position, direction) ==
    IF c.cameraMode = "orbit"
    THEN [c EXCEPT !.target = position, !.applied = "orbit"]
    ELSE IF c.cameraMode = "third-person"
    THEN Followed([c EXCEPT !.rotationAngle =
                               IF direction.x * direction.x + direction.z * direction.z > 0
                               THEN Atan2(direction.x, direction.z)
                               ELSE c.rotationAngle],
                  position)
    ELSE c

\* where the character stands when the camera is updated
CharacterPositions == {Point(0, 10, 0), Point(0, 10, -10)}

\* the facing vectors passed to the camera
FacingVectors == {[x |-> 0, z |-> -1]}

\* where a drag of the mouse leaves the camera while OrbitControls is enabled
DragPositions == {Point(0, 10, 60), Point(30, 50, 40)}

----------------------------------------------------------------------------
(* The horizontal velocity of the fallback step without move input         *)
(* (velocity unit as above, 0.0001 m/s)                                    *)

\* "Stop completely if very slow": 0.01 m/s
StopSpeed == 100

\* "velocity.x *= 0.9", rounded to the nearest unit
Decayed(v) ==
    IF v >= 0 THEN (9 * v + 5) \div 10 ELSE -((5 - 9 * v) \div 10)

\* the fallback step that never stops a slow component
Stopped_never(v) == v

\* "if (Math.abs(velocity.x) < 0.01) velocity.x = 0"
Stopped(v) == IF Abs(v) < StopSpeed THEN 0 ELSE v

\* updateFallbackMovement, "Slow down when no input": h holds velocity.x and
\* velocity.z, and as history the velocity the idle frames started from
FallbackIdle(h) ==
    [h EXCEPT !.x = Stopped(Decayed(h.x)), !.z = Stopped(Decayed(h.z))]

\* state.velocity as the constructor builds it
InitialSlide == [x |-> 0, z |-> 0, from |-> [x |-> 0, z |-> 0]]

\* the components of the horizontal velocity when the move input ends: the move
\* speed on the ground, the air-control fraction of it off the ground, along or
\* against an axis, a slow remainder, or none
SlideSpeeds ==
    {-moveSpeed, -((moveSpeed * 3) \div 10), 0, StopSpeed, (moveSpeed * 3) \div 10,
     moveSpeed}

----------------------------------------------------------------------------
(* InputHandler, src/unnamed/part_002 *)

\* the names in this.keys
AllKeys == Keys \cup {"jump"}

\* what this.keyCodes makes of the code of a keyboard event: the name of a key,
\* or nothing ("other")
KeyEvents == AllKeys \cup {"other"}

\* this.keys as the constructor sets it (all false).  polled and direction are
\* the keys read and the vector returned by the latest getMovementDirection;
\* before the first call direction is the zero vector that
\* state.movementDirection starts with
InitialInput ==
    [keys |-> {}, polled |-> {}, direction |-> [x |-> 0, z |-> 0, nan |-> FALSE, div |-> 1]]

\* InputHandler.onKeyDown
onKeyDown(i, code) ==
    IF code \in AllKeys THEN [i EXCEPT !.keys = @ \cup {code}] ELSE i

\* InputHandler.onKeyUp
onKeyUp(i, code) ==
    IF code \in AllKeys THEN [i EXCEPT !.keys = @ \ {code}] ELSE i

----------------------------------------------------------------------------
(* The objects of the controller's state, src/src/character.js *)

\* the objects created since construction
MaxObjects == 7

\* the nested objects of this.state that hold numbers
Fields == {"position", "velocity", "rotation"}

\* the values of the y component of an object
FieldValues == 0 .. 1

\* no value returned yet
NoShot == [kind |-> "none", refs |-> [f \in {} |-> 0], was |-> [f \in {} |-> 0]]

\* "this.state = { velocity: {x: 0, y: 0, z: 0}, position: {x: 0, y: 1, z: 0},
\* rotation: {x: 0, y: 0, z: 0}, ... }": three objects; store holds the y
\* component of each object, state the object each field of this.state refers to
InitialObjects ==
    [store |-> [r \in 1 .. MaxObjects |-> IF r = 1 THEN 1 ELSE 0],
     used |-> 3,
     state |-> [position |-> 1, velocity |-> 2, rotation |-> 3],
     usingFallback |-> FALSE,
     shot |-> NoShot]

\* the y components the controller's state holds
MotionState(o) == [f \in Fields |-> o.store[o.state[f]]]

\* the y components read through the value returned last
SnapshotView(o) == [f \in DOMAIN o.shot.refs |-> o.store[o.shot.refs[f]]]

\* getState: "return { ...this.state }" makes a new outer object whose
\* position, velocity and rotation are the objects of this.state
StateSnapshot(o) ==
    [o EXCEPT !.shot = [kind |-> "getState", refs |-> o.state, was |-> MotionState(o)]]

\* getPosition, getRotation: "return { ...this.state.position }" makes a new
\* object with the numbers of the field
FieldCopy(o, f) ==
    [o EXCEPT !.store[o.used + 1] = o.store[o.state[f]],
              !.used = o.used + 1,
              !.shot = [kind |-> "copy",
                        refs |-> [g \in {f} |-> o.used + 1],
                        was |-> [g \in {f} |-> o.store[o.state[f]]]]]

\* the try block of update: "this.state.velocity = {...}" and
\* "this.state.position = { ...position }" make new objects,
\* "this.state.rotation.y += rotationAmount" writes into the object of
\* this.state.rotation when the character moves
PhysicsFrame(o, moving, v) ==
    [o EXCEPT !.store[o.used + 1] = v.velocity,
              !.store[o.used + 2] = v.position,
              !.store[o.state.rotation] = IF moving THEN v.rotation ELSE @,
              !.state.velocity = o.used + 1,
              !.state.position = o.used + 2,
              !.used = o.used + 2]

\* updateFallbackMovement: "this.state.velocity.y -= ...",
\* "this.state.position.y += ..." and "this.state.rotation.y += ..." write into
\* the objects of this.state
FallbackFrame(o, moving, v) ==
    [o EXCEPT !.store[o.state.velocity] = v.velocity,
              !.store[o.state.position] = v.position,
              !.store[o.state.rotation] = IF moving THEN v.rotation ELSE @,
              !.usingFallback = TRUE]

\* the objects that one call of update writes: throws tells that body.linvel()
\* throws, which happens before the try block has written anything
updateObjects(o, moving, throws, v) ==
    IF o.usingFallback \/ throws THEN FallbackFrame(o, moving, v)
    ELSE PhysicsFrame(o, moving, v)

\* update in Physics mode makes two objects
CanUpdate(o, throws) == o.usingFallback \/ throws \/ o.used + 2 <= MaxObjects

\* the caller writes the y component of a returned value, or of one of its
\* nested objects: "snapshot.rotation.y = v"
WriteField(o, f, v) ==
    [o EXCEPT !.store[o.shot.refs[f]] = v, !.shot.was[f] = v]

----------------------------------------------------------------------------
(* The state machine *)

\* what world.createRigidBody can hand back: a body with every method, a body
\* that lacks one of them, or no usable body (it throws or returns null)
EngineBodies ==
    {[kind |-> "rapier", caps |-> BodyMethods]}
        \cup {[kind |-> "rapier", caps |-> BodyMethods \ {m}] : m \in BodyMethods}
        \cup {[kind |-> "none", caps |-> {}]}

\* the history of one call: the mode it started in, whether it returned, the
\* engine capabilities it invoked, whether one of them threw, whether one of
\* them is a method the body lacks, how often the fallback step ran and whether
\* it got the arguments of the call, and whether a jump started (with the
\* values the jump condition read)
LastOf(op, jump, dt, wasFallback, body, r) ==
    [op |-> op, wasFallback |-> wasFallback,
     outcome |-> IF r.raised THEN "threw" ELSE "returned",
     calls |-> r.trace.calls,
     engineFailed |-> r.trace.failed # {},
     missingUsed |-> (r.trace.calls \cap BodyMethods) \ body.caps # {},
     fallbackSteps |-> r.trace.fallbackSteps,
     sameArgs |-> r.trace.fallbackArgs = <<jump, dt>>,
     jumped |-> r.trace.jumped,
     chkJump |-> r.trace.chkJump,
     chkGrounded |-> r.trace.chkGrounded,
     chkCooldown |-> r.trace.chkCooldown]

NoCall == [raised |-> FALSE, trace |-> NoTrace]

\* the history counter of mode changes, saturating at 2
CountTransition(n, before, after) ==
    IF before # after /\ n < 2 THEN n + 1 ELSE n

Init ==
    /\ phase = "new"
    /\ initialized = FALSE
    /\ world = "none"
    /\ character = NoCharacter
    /\ usingFallback = TRUE
    /\ state = InitialState
    /\ transitions = 0
    /\ everFailed = FALSE
    /\ last = LastOf("none", FALSE, 0, TRUE, NoCharacter, NoCall)
    /\ turn = InitialTurn
    /\ loop = InitialLoop
    /\ track = InitialTrack
    /\ camera = InitialCamera
    /\ slide = InitialSlide
    /\ input = InitialInput
    /\ objects = InitialObjects

\* Application.init, "await this.physics.init()"
PhysicsInit ==
    /\ phase = "new"
    /\ \E rapierLoads \in BOOLEAN : world' = init(rapierLoads)
    /\ initialized' = TRUE
    /\ phase' = "initialized"
    /\ UNCHANGED <<character, usingFallback, state, transitions, everFailed, last>>
    /\ UNCHANGED <<turn, loop, track, camera, slide,
                   input, objects>>

\* the mode the constructor of CharacterController chooses for a character
ConstructorMode(ch) == ~(ch.kind # "null" /\ "translation" \in ch.caps)

\* Application.init, "new CharacterController(this.physics)"
Construct ==
    /\ phase = "initialized"
    /\ \E engineBody \in EngineBodies :
          LET ch == createCharacter(initialized, world, engineBody)
          IN /\ character' = ch
             /\ usingFallback' = ConstructorMode(ch)
             /\ last' = LastOf("construct", FALSE, 0, TRUE, ch, NoCall)
    /\ state' = InitialState
    /\ transitions' = 0
    /\ phase' = "running"
    /\ UNCHANGED <<initialized, world, everFailed, turn, loop, track,
                   camera, slide,
                   input, objects>>

\* one call of CharacterController.update(input, deltaTime)
Update ==
    /\ phase = "running"
    /\ \E jump \in BOOLEAN, dt \in DeltaTimes, e \in AnswersIn(usingFallback, world) :
          \E r \in {update(usingFallback, initialized, character, state, jump, dt, e)} :
             /\ usingFallback' = r.usingFallback
             /\ state' = r.state
             /\ transitions' = CountTransition(transitions, usingFallback, r.usingFallback)
             /\ everFailed' = (everFailed \/ r.trace.failed # {})
             /\ last' = LastOf("update", jump, dt, usingFallback, character, r)
    /\ UNCHANGED <<phase, initialized, world, character, turn, loop, track,
                   camera, slide,
                   input, objects>>

\* one call of CharacterController.getPosition()
GetPosition ==
    /\ phase = "running"
    /\ \E answer \in IF usingFallback THEN {Return(0)} ELSE TranslationAnswers :
          /\ \E r \in {getPosition(usingFallback, character, state,
                                   [NoAnswers EXCEPT !.translation = answer])} :
                /\ usingFallback' = r.usingFallback
                /\ state' = r.state
                /\ transitions' = CountTransition(transitions, usingFallback, r.usingFallback)
                /\ everFailed' = (everFailed \/ r.trace.failed # {})
                /\ last' = LastOf("getPosition", FALSE, 0, usingFallback, character, r)
    /\ UNCHANGED <<phase, initialized, world, character, turn, loop, track,
                   camera, slide,
                   input, objects>>

\* CharacterController.getRotation(): returns a copy, writes nothing
GetRotation ==
    /\ phase = "running"
    /\ UNCHANGED vars

\* CharacterController.getDirection(): returns a copy, writes nothing
GetDirection ==
    /\ phase = "running"
    /\ UNCHANGED vars

\* CharacterController.getState(): returns a copy, writes nothing
GetState ==
    /\ phase = "running"
    /\ UNCHANGED vars

Next ==
    \/ PhysicsInit
    \/ Construct
    \/ Update
    \/ GetPosition
    \/ GetRotation
    \/ GetDirection
    \/ GetState

Spec == Init /\ [][Next]_vars

(* The orientation of a constructed controller *)

\* a controller right after its construction on a body of the engine
OrientationInit ==
    /\ phase = "running"
    /\ initialized = TRUE
    /\ world = "rapier"
    /\ character = [kind |-> "rapier", caps |-> BodyMethods]
    /\ usingFallback = FALSE
    /\ state = InitialState
    /\ transitions = 0
    /\ everFailed = FALSE
    /\ last = LastOf("construct", FALSE, 0, TRUE, character, NoCall)
    /\ turn = InitialTurn
    /\ loop = InitialLoop
    /\ track = InitialTrack
    /\ camera = InitialCamera
    /\ slide = InitialSlide
    /\ input = InitialInput
    /\ objects = InitialObjects

\* one call of CharacterController.updateRotation(inputDirection, deltaTime)
UpdateRotation ==
    /\ phase = "running"
    /\ \E move \in MoveInputs, dt \in TurnDeltaTimes :
          /\ TurnAllowed(turn, move, dt)
          /\ turn' = [updateRotation(turn, move, dt) EXCEPT !.idle = ~IsMoving(move)]
    /\ UNCHANGED <<phase, initialized, world, character, usingFallback, state,
                   transitions, everFailed, last, loop, track, camera, slide,
                   input, objects>>

OrientationNext == UpdateRotation

OrientationSpec == OrientationInit /\ [][OrientationNext]_vars

(* A controller on a body of the engine, with the history of the engine's *)
(* reports                                                                  *)

\* one call of CharacterController.update(input, deltaTime)
TrackedUpdate ==
    /\ phase = "running"
    /\ \E jump \in BOOLEAN, dt \in DeltaTimes, e \in DegradeAnswers(usingFallback, world) :
          \E r \in {update(usingFallback, initialized, character, state, jump, dt, e)} :
             /\ usingFallback' = r.usingFallback
             /\ state' = r.state
             /\ track' = Tracked(track, r, dt)
    /\ UNCHANGED <<phase, initialized, world, character, transitions, everFailed,
                   last, turn, loop, camera, slide,
                   input, objects>>

\* one call of CharacterController.getPosition()
TrackedGetPosition ==
    /\ phase = "running"
    /\ \E answer \in IF usingFallback THEN {Return(0)} ELSE TranslationAnswers :
          \E r \in {getPosition(usingFallback, character, state,
                                [NoAnswers EXCEPT !.translation = answer])} :
             /\ usingFallback' = r.usingFallback
             /\ state' = r.state
             /\ track' = Tracked(track, r, 0)
    /\ UNCHANGED <<phase, initialized, world, character, transitions, everFailed,
                   last, turn, loop, camera, slide,
                   input, objects>>

DegradeNext ==
    \/ TrackedUpdate
    \/ TrackedGetPosition

DegradeSpec == OrientationInit /\ [][DegradeNext]_vars

(* The camera of the scene *)

\* the C key: SceneManager.toggleCameraMode
ToggleCameraMode ==
    /\ camera.toggles < MaxToggles
    /\ camera' = toggleCameraMode(camera)
    /\ UNCHANGED <<phase, initialized, world, character, usingFallback, state,
                   transitions, everFailed, last, turn, loop, track, slide,
                   input, objects>>

\* gameLoop, "this.scene.updateCameraTarget(characterPosition,
\* characterDirection)"
UpdateCameraTarget ==
    /\ \E position \in CharacterPositions, direction \in FacingVectors :
          camera' = updateCameraTarget(camera, position, direction)
    /\ UNCHANGED <<phase, initialized, world, character, usingFallback, state,
                   transitions, everFailed, last, turn, loop, track, slide,
                   input, objects>>

\* OrbitControls, while enabled, moves the camera when the mouse is dragged
OrbitDrag ==
    /\ camera.enabled
    /\ \E position \in DragPositions : camera' = [camera EXCEPT !.position = position]
    /\ UNCHANGED <<phase, initialized, world, character, usingFallback, state,
                   transitions, everFailed, last, turn, loop, track, slide,
                   input, objects>>

CameraNext ==
    \/ ToggleCameraMode
    \/ UpdateCameraTarget
    \/ OrbitDrag

CameraSpec == Init /\ [][CameraNext]_vars

(* A controller in Fallback mode whose move input has ended *)

SlideInit ==
    /\ phase = "running"
    /\ initialized = TRUE
    /\ world = "rapier"
    /\ character = NoCharacter
    /\ usingFallback = TRUE
    /\ state = InitialState
    /\ transitions = 0
    /\ everFailed = FALSE
    /\ last = LastOf("construct", FALSE, 0, TRUE, character, NoCall)
    /\ turn = InitialTurn
    /\ loop = InitialLoop
    /\ track = InitialTrack
    /\ camera = InitialCamera
    /\ \E x \in SlideSpeeds, z \in SlideSpeeds :
          slide = [x |-> x, z |-> z, from |-> [x |-> x, z |-> z]]
    /\ input = InitialInput
    /\ objects = InitialObjects

\* one update in Fallback mode with the zero move input (horizontal part)
IdleFrame ==
    /\ phase = "running"
    /\ usingFallback
    /\ slide' = FallbackIdle(slide)
    /\ UNCHANGED <<phase, initialized, world, character, usingFallback, state,
                   transitions, everFailed, last, turn, loop, track, camera,
                   input, objects>>

SlideNext == IdleFrame

SlideSpec == SlideInit /\ [][SlideNext]_vars

\* the game loop requests a frame after every frame, so the updates go on
SlideFairSpec == SlideSpec /\ WF_vars(IdleFrame)

(* The input handler *)

\* a keydown event
OnKeyDown ==
    /\ \E code \in KeyEvents : input' = onKeyDown(input, code)
    /\ UNCHANGED <<phase, initialized, world, character, usingFallback, state,
                   transitions, everFailed, last, turn, loop, track, camera, slide,
                   objects>>

\* a keyup event
OnKeyUp ==
    /\ \E code \in KeyEvents : input' = onKeyUp(input, code)
    /\ UNCHANGED <<phase, initialized, world, character, usingFallback, state,
                   transitions, everFailed, last, turn, loop, track, camera, slide,
                   objects>>

\* one call of InputHandler.getMovementDirection()
GetMovementDirection ==
    /\ input' = [input EXCEPT !.polled = input.keys \cap Keys,
                              !.direction = getMovementDirection(input.keys)]
    /\ UNCHANGED <<phase, initialized, world, character, usingFallback, state,
                   transitions, everFailed, last, turn, loop, track, camera, slide,
                   objects>>

InputNext ==
    \/ OnKeyDown
    \/ OnKeyUp
    \/ GetMovementDirection

InputSpec == Init /\ [][InputNext]_vars

(* The objects behind the returned values *)

\* one call of CharacterController.update
UpdateObjects ==
    /\ \E moving \in BOOLEAN, throws \in BOOLEAN, v \in [Fields -> FieldValues] :
          /\ CanUpdate(objects, throws)
          /\ objects' = updateObjects(objects, moving, throws, v)
    /\ UNCHANGED <<phase, initialized, world, character, usingFallback, state,
                   transitions, everFailed, last, turn, loop, track, camera, slide,
                   input>>

\* one call of CharacterController.getState
TakeState ==
    /\ objects' = StateSnapshot(objects)
    /\ UNCHANGED <<phase, initialized, world, character, usingFallback, state,
                   transitions, everFailed, last, turn, loop, track, camera, slide,
                   input>>

\* one call of getPosition or getRotation
TakeCopy ==
    /\ objects.used < MaxObjects
    /\ \E f \in {"position", "rotation"} : objects' = FieldCopy(objects, f)
    /\ UNCHANGED <<phase, initialized, world, character, usingFallback, state,
                   transitions, everFailed, last, turn, loop, track, camera, slide,
                   input>>

\* the caller writes into the value it holds
CallerWrite ==
    /\ \E f \in DOMAIN objects.shot.refs, v \in FieldValues :
          objects' = WriteField(objects, f, v)
    /\ UNCHANGED <<phase, initialized, world, character, usingFallback, state,
                   transitions, everFailed, last, turn, loop, track, camera, slide,
                   input>>

SnapshotNext ==
    \/ UpdateObjects
    \/ TakeState
    \/ TakeCopy
    \/ CallerWrite

SnapshotSpec == OrientationInit /\ [][SnapshotNext]_vars

(* The game loop *)

\* the end of Application.init: "this.usingFallback =
\* this.character.usingFallback" and the start of the loop; when a call on the
\* scene throws, the catch sets hasError and usingFallback and starts the loop
\* as well
Start ==
    /\ phase = "running"
    /\ ~loop.isRunning
    /\ \E sceneFails \in BOOLEAN :
          loop' = [loop EXCEPT !.isRunning = TRUE,
                               !.usingFallback = sceneFails \/ usingFallback,
                               !.hasError = sceneFails,
                               !.scheduled = loop.scheduled + 1]
    /\ UNCHANGED <<phase, initialized, world, character, usingFallback, state,
                   transitions, everFailed, last, turn, track, camera, slide,
                   input, objects>>

\* one frame, Application.gameLoop(currentTime), run by the browser for a
\* callback that requestAnimationFrame holds: the delta time and its limit,
\* physics.step in Physics mode, the copy of the controller's mode, then
\* character.update and character.getPosition, the scene calls, and the catch
GameLoop ==
    /\ loop.isRunning
    /\ loop.scheduled > 0
    /\ \E elapsed \in ElapsedTimes, jump \in BOOLEAN,
          e \in LoopAnswers(usingFallback, world), fails \in SceneFailures :
          \E dt \in {LimitDeltaTime(elapsed)} :
             /\ loop' = [loop EXCEPT !.deltaTime = dt,
                                     !.limited = (dt # elapsed),
                                     !.stepped = ~loop.usingFallback,
                                     !.startedInFallback = usingFallback,
                                     !.updated = (phase = "running"),
                                     !.usingFallback = (fails # "none" \/ usingFallback),
                                     !.hasError = (loop.hasError \/ fails # "none"),
                                     !.frame = IF fails = "none" THEN "completed"
                                               ELSE "caught",
                                     !.scheduled = loop.scheduled - 1
                                                       + FramesRequested(fails)]
             /\ \E r \in {FramePosition(character, e,
                                        update(usingFallback, initialized, character,
                                               state, jump, dt, e))} :
                   /\ usingFallback' = r.usingFallback
                   /\ state' = r.state
    /\ UNCHANGED <<phase, initialized, world, character, transitions, everFailed,
                   last, turn, track, camera, slide,
                   input, objects>>

LoopNext ==
    \/ PhysicsInit
    \/ Construct
    \/ Start
    \/ GameLoop

LoopSpec == Init /\ [][LoopNext]_vars

TypeOK ==
    /\ phase \in {"new", "initialized", "running"}
    /\ initialized \in BOOLEAN
    /\ world \in {"none", "rapier", "stub"}
    /\ usingFallback \in BOOLEAN
    /\ transitions \in 0..2
    /\ state.isGrounded \in BOOLEAN
    /\ state.isJumping \in BOOLEAN

----------------------------------------------------------------------------
(* Claims *)

\* C1: once the mode is Fallback no later call (update, getPosition,
\* getRotation, getDirection, getState) returns it to Physics, and since
\* construction the mode has changed at most once.
C1_ModeMonotone ==
    /\ [][(phase = "running" /\ usingFallback) => usingFallback']_vars
    /\ [](transitions <= 1)

\* C1 witness: an update that ran in Fallback mode after a switch from Physics.
C1_Witness ==
    /\ usingFallback /\ transitions = 1
    /\ last.op = "update" /\ last.wasFallback

\* C2: when engine initialization failed (the stub world is installed), the
\* controller constructed on that world is in Fallback mode.
C2_StubWorldStartsFallback ==
    (phase = "running" /\ world = "stub") => usingFallback

\* C3: an update that started in Physics mode on a body of the real engine and
\* in which an engine capability call failed ends in Fallback mode.
C3_FailureDegrades ==
    (/\ world = "rapier" /\ character.kind = "rapier"
     /\ last.op = "update" /\ ~last.wasFallback /\ last.engineFailed) => usingFallback

\* C4: every update in which the mode switches from Physics to Fallback runs
\* the fallback step once in that same call, with the call's input and dt.
C4_SameFrameRetry ==
    (last.op = "update" /\ ~last.wasFallback /\ usingFallback)
        => (last.fallbackSteps = 1 /\ last.sameArgs)

\* C4 witness: an update that switched the mode and ran the fallback step.
C4_Witness ==
    /\ last.op = "update" /\ ~last.wasFallback /\ usingFallback
    /\ last.engineFailed /\ last.fallbackSteps = 1

\* C5: a controller whose body is null or lacks translation is in Fallback
\* mode, and an update that needed a method the body lacks ends in Fallback mode.
C5_MalformedBodyDegrades ==
    phase = "running" =>
        /\ (character.kind = "null" \/ "translation" \notin character.caps) => usingFallback
        /\ (last.op = "update" /\ last.missingUsed) => usingFallback

\* C6: update returns normally whatever engine calls fail.
C6_UpdateNeverThrows ==
    last.op = "update" => last.outcome = "returned"

\* C6 witness: an update in Physics mode in which linvel() threw, and which returned.
C6_Witness ==
    /\ last.op = "update" /\ ~last.wasFallback /\ last.outcome = "returned"
    /\ last.engineFailed /\ "setLinvel" \notin last.calls

\* C7: once a call of the real engine has failed exactly one mode transition has occurred,
\* and every update that starts in Fallback mode issues no engine capability
\* call and runs the fallback step exactly once.
C7_OneTransitionThenFallbackOnly ==
    /\ (phase = "running" /\ character.kind = "rapier" /\ everFailed) => transitions = 1
    /\ (last.op = "update" /\ last.wasFallback)
           => (last.calls = {} /\ last.fallbackSteps = 1)

\* C8: after every update jumpCooldownTimer is >= 0.
C8_CooldownNonNegative ==
    last.op = "update" => state.jumpCooldownTimer >= 0

\* C9: across an update jumpCooldownTimer does not increase unless a jump starts
\* in it, and when a jump starts the timer ends at the configured cooldown.
C9_CooldownMonotone ==
    [][last'.op = "update" =>
          IF last'.jumped
          THEN state'.jumpCooldownTimer = jumpCooldown
          ELSE state'.jumpCooldownTimer <= state.jumpCooldownTimer]_vars

\* C9 witness: an update in which a jump started and the timer was reset.
C9_Witness ==
    /\ last.op = "update" /\ last.jumped
    /\ state.jumpCooldownTimer = jumpCooldown

\* C10: isJumping becomes true in an update only by a jump start, and a jump
\* starts only if it was requested and the jump condition read isGrounded =
\* true and jumpCooldownTimer <= 0; in Fallback mode the character was grounded
\* when the update began.
C10_JumpGuard ==
    [][(last'.op = "update" /\ (last'.jumped \/ (~state.isJumping /\ state'.isJumping)))
          => /\ last'.jumped
             /\ last'.chkJump /\ last'.chkGrounded /\ last'.chkCooldown <= 0
             /\ last'.wasFallback => state.isGrounded]_vars

\* C10 witness: a jump started in an update in Fallback mode, on a controller
\* that had degraded from Physics mode.
C10_Witness ==
    /\ last.op = "update" /\ last.jumped /\ last.wasFallback
    /\ state.isJumping /\ transitions = 1

\* whether an update from the current state with engine answers e starts
\* grounded: the flag the jump condition works with is state.isGrounded in
\* Fallback mode and the answer of the ground probe in Physics mode
StartsGrounded(e) ==
    IF usingFallback \/ character.kind = "null"
    THEN state.isGrounded
    ELSE isGrounded(initialized, character, e).val

\* the flags isGrounded and isJumping of state s are both set
GroundedAndJumping(s) == s.isGrounded /\ s.isJumping

\* C11: every update that starts grounded with the jump requested and
\* jumpCooldownTimer = 0 ends with isJumping = true, isGrounded = false and
\* jumpCooldownTimer = the configured cooldown, in either mode and on the frame
\* on which the mode degrades.
C11_JumpFromGround ==
    (phase = "running" /\ state.jumpCooldownTimer = 0) =>
        \A dt \in DeltaTimes, e \in AnswersIn(usingFallback, world) :
            StartsGrounded(e) =>
                LET s == update(usingFallback, initialized, character, state,
                                TRUE, dt, e).state
                IN /\ s.isJumping
                   /\ ~s.isGrounded
                   /\ s.jumpCooldownTimer = jumpCooldown

\* C12: isGrounded and isJumping are not both true at the end of two
\* consecutive updates: from a state in which both are set (they change only in
\* update), no update ends with both set again.
C12_LandingFlagsCleared ==
    (phase = "running" /\ GroundedAndJumping(state)) =>
        \A jump \in BOOLEAN, dt \in DeltaTimes, e \in AnswersIn(usingFallback, world) :
            ~GroundedAndJumping(update(usingFallback, initialized, character, state,
                                       jump, dt, e).state)

\* C12 witness: an update of a controller that degraded from Physics mode ended
\* with both flags set (the character landed in the fallback step).
C12_Witness ==
    /\ last.op = "update" /\ GroundedAndJumping(state)
    /\ usingFallback /\ transitions = 1

\* the engine reports the body where state.position has it: whenever update
\* gets as far as reading the position, the answer is the stored position
EngineReportsStoredPosition(e) ==
    BodyCall(character, "linvel", e.linvel).ok
        => BodyCall(character, "translation", e.translation) = Return(state.positionY)

\* C13: from every reachable state an update with dt = 0 (and a zero move
\* vector) leaves the position unchanged, in Physics mode given that the engine
\* reports an unchanged body position.
C13_ZeroStepIdempotent ==
    phase = "running" =>
        \A jump \in BOOLEAN, e \in AnswersIn(usingFallback, world) :
            EngineReportsStoredPosition(e) =>
                update(usingFallback, initialized, character, state,
                       jump, 0, e).state.positionY = state.positionY

(* Claims about the orientation, under OrientationSpec *)

\* the signed shortest angular delta from angle a to angle b, in (-pi, pi]
ShortestDelta(a, b) ==
    IF (b - a) % (2 * Pi) > Pi THEN ((b - a) % (2 * Pi)) - 2 * Pi
    ELSE (b - a) % (2 * Pi)

\* an angle of a units is at most num/den radians.  pi < 355/113, so
\* a * 355/113 <= Pi * num/den implies a * pi <= Pi * num/den
AtMostRadians(a, num, den) == a * 355 * den <= Pi * 113 * num

\* an angle of a units is more than num/den radians.  pi > 333/106, so
\* a * 333/106 > Pi * num/den implies a * pi > Pi * num/den
MoreThanRadians(a, num, den) == a * 333 * den > Pi * 106 * num

\* the non-zero movement vectors of InputHandler
Targets == {m \in MoveInputs : ~m.nan /\ IsMoving(m)}

\* the yaw after one call of updateRotation from the current state
YawAfter(move, dt) == updateRotation(turn, move, dt).rotationY

\* a step from yaw a to yaw b does not pass the target: the angular distance
\* to the target shrinks by exactly the angle turned
NoOvershoot(a, b, target) ==
    Abs(ShortestDelta(b, target)) = Abs(ShortestDelta(a, target)) - Abs(b - a)

\* the two rational comparisons with a radian agree on every step of the
\* model, so they decide "at most rotationSpeed*dt radians" exactly
RadiansDecided ==
    ~turn.nan =>
        \A move \in Targets, dt \in TurnDeltaTimes :
            TurnAllowed(turn, move, dt) =>
                (AtMostRadians(Abs(YawAfter(move, dt) - turn.rotationY),
                               rotationSpeed * dt, 20)
                    # MoreThanRadians(Abs(YawAfter(move, dt) - turn.rotationY),
                                      rotationSpeed * dt, 20))

\* every rotation amount of the model is an exact multiple of the angle unit
AnglesExact ==
    ~turn.nan =>
        \A move \in Targets, dt \in TurnDeltaTimes :
            TurnAllowed(turn, move, dt) =>
                (AngleDiff(Atan2(move.x, move.z), NormalizeAngle(turn.rotationY))
                    * rotationSpeed * dt) % 20 = 0

\* C14: in every state reached by updates with any move inputs and delta
\* times of at most 0.1 s, the stored yaw state.rotation.y lies in (-pi, pi].
C14_YawWrapped ==
    (~turn.nan /\ turn.accepted) => (0 - Pi < turn.rotationY /\ turn.rotationY <= Pi)

\* C15: in every reachable state, the one right after construction included,
\* state.direction is the unit vector (sin, cos) of state.rotation.y.
C15_FacingFromYaw ==
    ~turn.nan => turn.direction = DirectionOf(turn.rotationY)

\* C16: one call of updateRotation with a non-zero target changes the yaw by
\* at most rotationSpeed*dt radians, toward the target along the shortest path.
C16_BoundedTurnRate ==
    ~turn.nan =>
        \A move \in Targets, dt \in TurnDeltaTimes :
            TurnAllowed(turn, move, dt) =>
                /\ AtMostRadians(Abs(YawAfter(move, dt) - turn.rotationY),
                                 rotationSpeed * dt, 20)
                /\ Abs(ShortestDelta(YawAfter(move, dt), Atan2(move.x, move.z)))
                       <= Abs(ShortestDelta(turn.rotationY, Atan2(move.x, move.z)))

\* C16 amended: one call of updateRotation with a non-zero target changes the
\* yaw by rotationSpeed*dt times the signed shortest angular delta to the
\* target (either sign when the target is exactly opposite), hence by at most
\* pi*rotationSpeed*dt radians.
C16_ProportionalTurn ==
    ~turn.nan =>
        \A move \in Targets, dt \in TurnDeltaTimes :
            TurnAllowed(turn, move, dt) =>
                LET change == YawAfter(move, dt) - turn.rotationY
                    delta == ShortestDelta(turn.rotationY, Atan2(move.x, move.z))
                IN /\ \/ change * 20 = delta * rotationSpeed * dt
                      \/ delta = Pi /\ change * 20 = (0 - delta) * rotationSpeed * dt
                   /\ Abs(change) * 20 <= Pi * rotationSpeed * dt

\* C16 witness: the first turning step of a controller changed the yaw by more
\* than rotationSpeed*dt radians for the largest dt (LongDeltaTime).
C16_Witness ==
    /\ ~turn.nan /\ turn.turns = 1
    /\ MoreThanRadians(Abs(turn.rotationY), rotationSpeed * LongDeltaTime, 20)

\* C17: whenever rotationSpeed*dt is at least the angular distance to the
\* target (in radians), one call of updateRotation does not carry the yaw past
\* the target.
C17_NoOvershootNearTarget ==
    ~turn.nan =>
        \A move \in Targets, dt \in TurnDeltaTimes :
            (/\ TurnAllowed(turn, move, dt)
             /\ AtMostRadians(Abs(ShortestDelta(turn.rotationY, Atan2(move.x, move.z))),
                              rotationSpeed * dt, 20))
                => NoOvershoot(turn.rotationY, YawAfter(move, dt), Atan2(move.x, move.z))

\* C17 amended: whenever rotationSpeed*dt <= 1, one call of updateRotation
\* does not carry the yaw past the target, whatever the angular distance.
C17_NoOvershootSmallStep ==
    ~turn.nan =>
        \A move \in Targets, dt \in TurnDeltaTimes :
            (TurnAllowed(turn, move, dt) /\ rotationSpeed * dt <= 20)
                => NoOvershoot(turn.rotationY, YawAfter(move, dt), Atan2(move.x, move.z))

\* C17 witness: one turning step with rotationSpeed*dt = 1 has put the yaw
\* exactly on the target pi (forward), not past it.
C17_Witness ==
    ~turn.nan /\ turn.turns = 1 /\ turn.rotationY = Pi

\* C18: after an update whose movement vector has a NaN component no field of
\* the motion state is NaN.
C18_NaNContained == ~turn.nan

\* C20: for a grounded character with forward input (0, -1), one fallback
\* step with dt displaces the character horizontally by moveSpeed*dt along
\* its facing direction: state.direction as the step uses it, after
\* updateRotation.
C20_ForwardAlongFacing ==
    ~turn.nan =>
        \A dt \in DeltaTimes :
            TurnAllowed(turn, getMovementDirection({"forward"}), dt) =>
                LET facing == updateRotation(turn, getMovementDirection({"forward"}),
                                             dt).direction
                    step == Displacement(
                                HorizontalVelocity(facing,
                                                   getMovementDirection({"forward"}), TRUE),
                                dt)
                IN /\ step.length = moveSpeed * dt
                   /\ dt > 0 => step.heading = facing

(* Claims about the game loop, under LoopSpec *)

\* C19: every deltaTime that gameLoop passes to character.update is at most
\* 0.1 s, whatever the time between two frames.
C19_DeltaTimeLimited ==
    loop.updated => loop.deltaTime <= MaxDeltaTime

\* C19 witness: a frame that came more than 0.1 s after the previous one
\* called character.update with deltaTime = 0.1 s.
C19_Witness ==
    loop.updated /\ loop.limited /\ loop.deltaTime = MaxDeltaTime

\* the ground clamp of the fallback step applied to the height q
Clamped(q) == IF q < RestHeight THEN RestHeight ELSE q

\* C21: on the update in which the mode switches from Physics to Fallback and
\* the fallback step runs, the position after the update is the position the
\* engine last reported plus one step velocity * dt, raised to the rest height
\* by the ground clamp; the position is not replaced by a default value
C21_ContinuityOnDegrade ==
    (phase = "running" /\ ~usingFallback /\ track.position.known) =>
        \A jump \in BOOLEAN, dt \in DeltaTimes, e \in DegradeAnswers(usingFallback, world) :
            LET r == update(usingFallback, initialized, character, state, jump, dt, e)
            IN (r.usingFallback /\ r.trace.fallbackSteps > 0) =>
                   r.state.positionY
                       = Clamped(track.position.val + r.state.velocityY * dt)

\* C21 where the last read of body.translation() returned: the stored position
\* is the engine's report
C21_ContinuityAfterGoodRead ==
    (phase = "running" /\ ~usingFallback /\ track.position.known
        /\ state.positionY = track.position.val) =>
        \A jump \in BOOLEAN, dt \in DeltaTimes, e \in DegradeAnswers(usingFallback, world) :
            LET r == update(usingFallback, initialized, character, state, jump, dt, e)
            IN (r.usingFallback /\ r.trace.fallbackSteps > 0) =>
                   r.state.positionY
                       = Clamped(track.position.val + r.state.velocityY * dt)

\* C22: the camera modes are mutually exclusive in every reachable state: the
\* orbit controller is enabled exactly when cameraMode is "orbit", and
\* updateCameraTarget positions the camera behind the character exactly when
\* cameraMode is "third-person"
C22_CameraModesExclusive ==
    /\ camera.enabled <=> camera.cameraMode = "orbit"
    /\ \A position \in CharacterPositions, direction \in FacingVectors :
           updateCameraTarget(camera, position, direction).applied = "follow"
               <=> camera.cameraMode = "third-person"

\* C22 from the first toggle on
C22_ExclusiveAfterToggle ==
    camera.toggles > 0 =>
        /\ camera.enabled <=> camera.cameraMode = "orbit"
        /\ \A position \in CharacterPositions, direction \in FacingVectors :
               updateCameraTarget(camera, position, direction).applied = "follow"
                   <=> camera.cameraMode = "third-person"

\* C23: a camera that rests at its desired follow position behind a stationary
\* character gets the same distance and height back after a round trip
\* third-person -> orbit -> (one frame) -> third-person
C23_FollowRoundTrip ==
    \A position \in CharacterPositions, direction \in FacingVectors :
        (/\ camera.cameraMode = "third-person"
         /\ camera.applied = "follow"
         /\ camera.position = FollowPosition(camera, position)) =>
            LET back == toggleCameraMode(
                            updateCameraTarget(toggleCameraMode(camera),
                                               position, direction))
            IN back.distance = camera.distance /\ back.height = camera.height

\* C23, first sentence: on switching to third-person mode the recomputed
\* distance and height are the horizontal and the vertical offset of the camera
\* from the target, so that the desired follow position is as far behind and
\* above the target as the camera is
C23_OffsetKept ==
    camera.cameraMode = "orbit" =>
        LET back == toggleCameraMode(camera)
        IN /\ back.distance
                  = RecomputedDistance_horizontal(camera.position, camera.target)
           /\ back.height = camera.position.y - camera.target.y

\* C24: after every invocation of gameLoop, whether it completed or its catch
\* ran, exactly one next frame is scheduled, and the invocation called
\* character.update (so the frame that follows any frame attempts the update
\* again)
C24_NextFrameScheduled ==
    loop.frame # "none" => (loop.scheduled = 1 /\ loop.updated)

\* C24 witness: a frame in which an error was caught has scheduled the next one
C24_Witness ==
    loop.frame = "caught" /\ loop.scheduled = 1 /\ loop.updated

\* C25: every update that runs the fallback step and starts off the ground
\* lowers velocity.y by exactly 9.81 * dt and starts no jump; every one that
\* starts on the ground ends with velocity.y = 0 and isJumping = false unless
\* its jump check starts a jump (then velocity.y is the jump velocity and
\* isJumping is true)
C25_FallbackGravity ==
    phase = "running" =>
        \A jump \in BOOLEAN, dt \in DeltaTimes, e \in AnswersIn(usingFallback, world) :
            LET r == update(usingFallback, initialized, character, state, jump, dt, e)
            IN r.trace.fallbackSteps > 0 =>
                   IF StartsGrounded(e)
                   THEN /\ r.state.isJumping = r.trace.jumped
                        /\ r.state.velocityY
                               = IF r.trace.jumped THEN FallbackJumpVelocity ELSE 0
                   ELSE /\ ~r.trace.jumped
                        /\ r.state.velocityY = state.velocityY - Gravity * dt

\* C25 witness: a Fallback update of one tick that started off the ground with
\* velocity.y = 0 has ended with velocity.y = -9.81 * 0.05
C25_Witness ==
    usingFallback /\ ~state.isJumping /\ state.velocityY = -Gravity

\* C26: after every update that runs the fallback step, position.y is at least
\* the rest height, and isGrounded is true exactly when the integrated height
\* (the height before the step plus velocity.y * dt) was strictly below the rest
\* height, in which case position.y is the rest height; otherwise position.y is
\* the integrated height
C26_GroundClamp ==
    phase = "running" =>
        \A jump \in BOOLEAN, dt \in DeltaTimes, e \in AnswersIn(usingFallback, world) :
            LET r == update(usingFallback, initialized, character, state, jump, dt, e)
                integrated == state.positionY + r.state.velocityY * dt
            IN r.trace.fallbackSteps > 0 =>
                   /\ r.state.positionY >= RestHeight
                   /\ r.state.isGrounded <=> integrated < RestHeight
                   /\ r.state.positionY = Clamped(integrated)

\* C26 witness: a falling character in Fallback mode has been put back on the
\* rest height and is grounded
C26_Witness ==
    /\ usingFallback /\ state.isGrounded
    /\ state.positionY = RestHeight /\ state.velocityY < 0

\* the character rests on the ground: grounded, not moving vertically, at the
\* rest height
Resting(s) == s.isGrounded /\ s.velocityY = 0 /\ s.positionY = RestHeight

\* C27: in Fallback mode a resting character that gets no jump request is
\* grounded at the end of the next update, for every dt >= 0 (the state it is
\* in then is again the resting one, so the same holds for every later update)
C27_RestingStaysGrounded ==
    (phase = "running" /\ usingFallback /\ Resting(state)) =>
        \A dt \in DeltaTimes :
            update(usingFallback, initialized, character, state, FALSE, dt,
                   NoAnswers).state.isGrounded

\* C28: when an update starts a jump, the dt values of the updates since the
\* previous jump of the controller, this update included, add up to at least
\* the cooldown; and an update that starts no jump lowers jumpCooldownTimer by
\* at most its dt, also when it is the update in which the mode degrades
C28_JumpRateLimit ==
    phase = "running" =>
        \A jump \in BOOLEAN, dt \in DeltaTimes, e \in DegradeAnswers(usingFallback, world) :
            LET r == update(usingFallback, initialized, character, state, jump, dt, e)
            IN IF r.trace.jumped
               THEN track.sinceJump.known =>
                        Elapsed(track.sinceJump, dt).val >= jumpCooldown
               ELSE r.state.jumpCooldownTimer >= state.jumpCooldownTimer - dt

\* C28 for the updates that start and end in the same mode
C28_RateLimitWithinMode ==
    phase = "running" =>
        \A jump \in BOOLEAN, dt \in DeltaTimes, e \in DegradeAnswers(usingFallback, world) :
            LET r == update(usingFallback, initialized, character, state, jump, dt, e)
            IN r.usingFallback = usingFallback =>
                   IF r.trace.jumped
                   THEN state.jumpCooldownTimer - dt <= 0
                   ELSE r.state.jumpCooldownTimer >= state.jumpCooldownTimer - dt

\* C29: in Fallback mode, from any horizontal velocity whose components are
\* bounded by moveSpeed and with the move input staying zero, both components
\* are exactly 0 after finitely many frames and stay 0
C29_NoCreep ==
    <>[](slide.x = 0 /\ slide.z = 0)

\* C29 witness: a velocity that started at the move speed on both axes has
\* decayed to exactly (0, 0)
C29_Witness ==
    /\ slide.from.x = moveSpeed /\ slide.from.z = -moveSpeed
    /\ slide.x = 0 /\ slide.z = 0

\* a frame-start state of the vertical axis
FrameStart(grounded, cooldown) ==
    [InitialState EXCEPT !.isGrounded = grounded, !.jumpCooldownTimer = cooldown]

\* C30: for every frame-start state (isGrounded, facing direction, cooldown),
\* every non-zero move input and every jump flag, the horizontal velocity the
\* fallback step writes equals the horizontal target velocity the Physics path
\* sets on the body, also on a frame in which a jump starts
C30_SameHorizontalVelocity ==
    ~turn.nan =>
        \A grounded \in BOOLEAN, cooldown \in 0..jumpCooldown, jump \in BOOLEAN,
           move \in Targets, dt \in DeltaTimes :
            TurnAllowed(turn, move, dt) =>
                FallbackVelocity(FrameStart(grounded, cooldown), turn, move, jump, dt)
                    = PhysicsTargetVelocity(FrameStart(grounded, cooldown), turn, move,
                                            jump, dt)

\* C30 on the frames in which no jump is requested
C30_SameVelocityWithoutJump ==
    ~turn.nan =>
        \A grounded \in BOOLEAN, cooldown \in 0..jumpCooldown,
           move \in Targets, dt \in DeltaTimes :
            TurnAllowed(turn, move, dt) =>
                FallbackVelocity(FrameStart(grounded, cooldown), turn, move, FALSE, dt)
                    = PhysicsTargetVelocity(FrameStart(grounded, cooldown), turn, move,
                                            FALSE, dt)

\* C31: in every update in which handleMovement sets a velocity on the body,
\* the vertical component of that velocity is the vertical velocity that
\* body.linvel() returned earlier in the same update, for every jump flag and
\* every answer of the ground probe
C31_MovementKeepsVerticalVelocity ==
    (phase = "running" /\ ~usingFallback) =>
        \A jump \in BOOLEAN, dt \in DeltaTimes, e \in DegradeAnswers(usingFallback, world) :
            LET r == update(usingFallback, initialized, character, state, jump, dt, e)
            IN "setLinvel" \in r.trace.calls =>
                   (e.linvel.ok /\ r.trace.targetY = e.linvel.val)

\* C31 witness: an update has read a falling velocity from the engine and set
\* a target velocity with that vertical component on the body
C31_Witness ==
    /\ ~usingFallback
    /\ track.target.known /\ track.target.val < 0
    /\ track.velocity = track.target

\* the inputs with the move vector exactly (0, 0): no key held, or opposing
\* keys cancelling on both axes
IdleInputs == {move \in MoveInputs : ~IsMoving(move)}

\* C32: a call of updateRotation with the move vector (0, 0) leaves rotation.y
\* and the direction vector as they are, for every deltaTime; so does the
\* second call that updateFallbackMovement makes in the frame that degrades
\* (the jump flag is no argument of updateRotation)
C32_OrientationNoOp ==
    \A move \in IdleInputs, dt \in TurnDeltaTimes :
        \A after \in {updateRotation(turn, move, dt),
                      updateRotation(updateRotation(turn, move, dt), move, dt)} :
            /\ after.rotationY = turn.rotationY
            /\ after.direction = turn.direction
            /\ after.nan = turn.nan

\* C32 witness: a character that has turned away from its initial yaw has gone
\* through an update with the input (0, 0)
C32_Witness ==
    /\ turn.idle /\ ~turn.nan
    /\ turn.turns > 0 /\ turn.rotationY # 0
\* C33: in the third-person mode, a frame of a character that stands still
\* (gameLoop passes its position and character.getDirection(), the facing
\* vector the constructor has set) leaves thirdPersonCamera.rotationAngle as it
\* is, from the first frame on
C33_FollowDeadzone ==
    camera.cameraMode = "third-person" =>
        \A direction \in FacingVectors :
            updateCameraTarget(camera, Point(0, 10, 0), direction).rotationAngle
                = camera.rotationAngle

\* C33, for the vector the test is written for: a vector of length 0 (the
\* movement of a character that stands still) leaves the angle as it is
C33_DeadzoneOnZeroVector ==
    camera.cameraMode = "third-person" =>
        updateCameraTarget(camera, Point(0, 10, 0), [x |-> 0, z |-> 0]).rotationAngle
            = camera.rotationAngle
\* the zero vector exactly when every axis has no key or both keys held
Cancelling(keys) ==
    /\ ("left" \in keys) = ("right" \in keys)
    /\ ("forward" \in keys) = ("backward" \in keys)

\* C34: the vector that getMovementDirection returned is the zero vector when
\* no key is held or the keys held cancel on both axes, and has length 1
\* otherwise (the square of its length, (x*x + z*z) / div, is 1), so a diagonal
\* is as long as a vector along an axis
C34_NormalizedDirection ==
    IF Cancelling(input.polled)
    THEN input.direction.x = 0 /\ input.direction.z = 0
    ELSE input.direction.x * input.direction.x
             + input.direction.z * input.direction.z = input.direction.div

\* C34 witness: getMovementDirection has returned a diagonal, divided by the
\* square root of 2
C34_Witness ==
    /\ input.polled = {"forward", "right"}
    /\ input.direction.x = 1 /\ input.direction.z = -1
    /\ input.direction.div = 2
\* C35: a value returned by getState, getPosition or getRotation reads the same
\* after every later update, and no write of the caller into it, or into one of
\* its nested position, velocity and rotation objects, changes the state of the
\* controller
C35_SnapshotsReadOnly ==
    objects.shot.kind # "none" =>
        /\ \A moving \in BOOLEAN, throws \in BOOLEAN, v \in [Fields -> FieldValues] :
               CanUpdate(objects, throws) =>
                   SnapshotView(updateObjects(objects, moving, throws, v))
                       = SnapshotView(objects)
        /\ \A f \in DOMAIN objects.shot.refs, v \in FieldValues :
               MotionState(WriteField(objects, f, v)) = MotionState(objects)

\* C35, for getPosition and getRotation alone: the object they return is a new
\* one, so updates do not reach it and writes to it do not reach the controller
C35_CopiesReadOnly ==
    objects.shot.kind = "copy" =>
        /\ \A moving \in BOOLEAN, throws \in BOOLEAN, v \in [Fields -> FieldValues] :
               CanUpdate(objects, throws) =>
                   SnapshotView(updateObjects(objects, moving, throws, v))
                       = SnapshotView(objects)
        /\ \A f \in DOMAIN objects.shot.refs, v \in FieldValues :
               MotionState(WriteField(objects, f, v)) = MotionState(objects)
\* C36: whenever PhysicsWorld.isGrounded, called by update on the controller's
\* body, returns true, the ray has been cast and has hit a collider; a probe
\* that cannot be performed or that fails returns false
C36_GroundedOnlyOnHit ==
    (phase = "running" /\ ~usingFallback) =>
        \A e \in AnswersIn(usingFallback, world) :
            isGrounded(initialized, character, e).val =>
                /\ isGrounded(initialized, character, e).failed = {}
                /\ e.probe = "hit"

\* C36, for the two tests before the try block: the probe of an uninitialized
\* world or of no body returns false without casting a ray
C36_NotGroundedWithoutWorld ==
    \A e \in EngineAnswers :
        /\ ~isGrounded(FALSE, character, e).val
        /\ ~isGrounded(initialized, NoCharacter, e).val
\* C37: once Application.usingFallback is true, set from the controller or by
\* a catch of init or gameLoop, no later frame makes it false
C37_AppFlagMonotone ==
    [][loop.usingFallback => loop'.usingFallback]_vars

\* C37, for the flag of the controller that the loop copies: once it is true it
\* stays true through every frame
C37_ControllerFlagMonotone ==
    [][(loop.isRunning /\ usingFallback) => usingFallback']_vars

\* C38: a frame calls physics.step only if the controller is in Physics mode
\* when the frame starts (startedInFallback is the controller's usingFallback
\* at the start of the latest frame), so no frame after the controller's
\* switch to Fallback steps the physics world
C38_NoStepAfterDegrade ==
    loop.stepped => ~loop.startedInFallback
====
